---- MODULE Spec2Model ----
(***************************************************************************)
(* MInterface (code/model_interface.py): the LightningModule that wraps a  *)
(* causal LM for supervised fine-tuning.  The model keeps the module's own *)
(* attributes (hparams, scheduler, val_content, test_content), the parts   *)
(* of the trainer and optimizer the handlers read, and, in `trace`, the    *)
(* calls the most recent handler made to its collaborators (scheduler,     *)
(* LM, logger), in order.  The tokenizer, the LM and the trainer are       *)
(* external libraries: what they return is an input of the action.         *)
(***************************************************************************)
EXTENDS Integers, Sequences, FiniteSets, TLC

VARIABLES hparams, tokenizer, scheduler, optimizer, trainer, status, trace,
          val_content, test_content, epoch_log, fed

vars == <<hparams, tokenizer, scheduler, optimizer, trainer, status, trace,
          val_content, test_content, epoch_log, fed>>

-----------------------------------------------------------------------------
(* Bounds of the model.                                                    *)

\* largest token id of the modelled vocabulary 0..MaxTokenId
MaxTokenId == 2
\* hparams.max_input_length: positions per encoded row
MaxLength == 2
\* rows of a training batch
MaxRows == 1
\* the trainer stops the modelled run after this many optimizer steps
MaxGlobalStep == 3
\* training batches per epoch (trainer.current_epoch = global_step \div it)
StepsPerEpoch == 2
\* samples of an evaluation batch
MaxBatch == 2
\* samples accumulated in one evaluation epoch
MaxSamples == 2
\* pieces the labels and generated texts of one epoch are concatenated from
MaxPieces == 5

\* label id ignored by the LM's loss (masked_fill(..., -100))
IgnoreIndex == -100
\* warmup_steps = max_step // 20
WarmupDivisor == 20

-----------------------------------------------------------------------------
(* Values.                                                                 *)

None == [kind |-> "None"]
Unset == [kind |-> "unset"]

Vocab == 0..MaxTokenId

Finite(v) == [kind |-> "finite", v |-> v]
NaN == [kind |-> "nan", v |-> 0]
PosInf == [kind |-> "inf", v |-> 1]
NegInf == [kind |-> "inf", v |-> -1]
\* what outputs.loss of the LM can be
Losses == {Finite(0), Finite(1), NaN, PosInf, NegInf}

Event(op, args) == [op |-> op, args |-> args]

Last(s) == s[Len(s)]

\* what the tokenizer returns for a batch of `rows` pairs, `len` positions each
Encodings(rows, len) ==
    [input_ids : [1..rows -> [1..len -> Vocab]],
     token_type_ids : [1..rows -> [1..len -> {0, 1}]]]

\* the hyperparameter sets the module is constructed with
HParams ==
    [lr : {[kind |-> "hparams.lr"]},
     lr_scheduler : {"None", "cosine", "linear"},
     weight_decay : {"absent", "wd"},
     lr_decay_min_lr : {"min_lr"},
     lr_warmup_start_lr : {"warmup_start_lr"}]

-----------------------------------------------------------------------------
(* load_llm: the tokenizer's pad token falls back to its eos token.        *)

load_llm_pad_token_id(pad, eos) == IF pad = -1 THEN eos ELSE pad

-----------------------------------------------------------------------------
(* Init: the module after __init__ (save_hyperparameters, load_llm), handed *)
(* to a trainer.  self.scheduler is not assigned by __init__.              *)

InitModule(h, pad, max_steps) ==
    /\ hparams = h
    /\ tokenizer = [pad_token_id |-> load_llm_pad_token_id(pad, MaxTokenId),
                    eos_token_id |-> MaxTokenId]
    /\ scheduler = Unset
    /\ optimizer = Unset
    /\ trainer = [global_step |-> 0, max_steps |-> max_steps, configured |-> FALSE,
                  stage |-> "idle"]
    /\ status = "running"
    /\ trace = << >>
    /\ val_content = Unset
    /\ test_content = Unset
    /\ epoch_log = [val |-> None, test |-> None]
    /\ fed = [val |-> << >>, test |-> << >>]

\* pad = -1: the pretrained tokenizer defines no pad token
Init ==
    \E h \in HParams, pad \in {-1, 0}, max_steps \in {-1, 2, 45} :
        InitModule(h, pad, max_steps)

current_epoch == trainer.global_step \div StepsPerEpoch

-----------------------------------------------------------------------------
(* configure_optimizers                                                    *)

\* a division that rounds toward zero
warmup_steps_truncated(max_step) ==
    IF max_step < 0 THEN -((-max_step) \div WarmupDivisor) ELSE max_step \div WarmupDivisor

\* max_step // 20
warmup_steps_of(max_step) == max_step \div WarmupDivisor

\* hasattr(self.hparams, 'weight_decay')
weight_decay_of(h) == IF h.weight_decay # "absent" THEN h.weight_decay ELSE 0

AdamW(h) ==
    [kind |-> "AdamW", params |-> "model.parameters", lr |-> h.lr,
     weight_decay |-> weight_decay_of(h)]

LinearWarmupCosineLRScheduler(max_step, min_lr, init_lr, warmup_steps, warmup_start_lr) ==
    [kind |-> "LinearWarmupCosineLRScheduler", max_step |-> max_step,
     min_lr |-> min_lr, init_lr |-> init_lr, warmup_steps |-> warmup_steps,
     warmup_start_lr |-> warmup_start_lr]

\* the scheduler attribute after configure_optimizers
configured_scheduler(h, old, max_step) ==
    IF h.lr_scheduler = "None" THEN old
    ELSE IF h.lr_scheduler = "cosine"
         THEN LinearWarmupCosineLRScheduler(max_step, h.lr_decay_min_lr, h.lr,
                                            warmup_steps_of(max_step),
                                            h.lr_warmup_start_lr)
         ELSE None

\* how configure_optimizers ends
configured_outcome(h) ==
    IF h.lr_scheduler \in {"None", "cosine"}
    THEN <<Event("return", "optimizer")>>
    ELSE <<Event("raise", "ValueError")>>

configure_optimizers ==
    /\ status = "running"
    /\ ~trainer.configured
    /\ trainer.stage = "idle"
    /\ optimizer' = AdamW(hparams)
    /\ scheduler' = configured_scheduler(hparams, scheduler, trainer.max_steps)
    /\ trace' = <<Event("configure_optimizers", << >>)>> \o configured_outcome(hparams)
    /\ status' = IF hparams.lr_scheduler \in {"None", "cosine"} THEN "running" ELSE "raised"
    /\ trainer' = [trainer EXCEPT !.configured = TRUE]
    /\ UNCHANGED <<hparams, tokenizer, val_content, test_content, epoch_log, fed>>

-----------------------------------------------------------------------------
(* forward                                                                 *)

\* tensor.masked_fill(mask, value): a new tensor, the argument is not changed
masked_fill(t, mask, value) ==
    [r \in DOMAIN t |-> [p \in DOMAIN t[r] |-> IF mask[r][p] THEN value ELSE t[r][p]]]

\* elementwise t == c
eq_mask(t, c) == [r \in DOMAIN t |-> [p \in DOMAIN t[r] |-> t[r][p] = c]]

\* labels that mask the prompt segment only
target_ids_prompt_only(input_ids, token_type_ids, pad_token_id) ==
    masked_fill(input_ids, eq_mask(token_type_ids, 0), IgnoreIndex)

\* target_ids of lines 53-55
target_ids_of(input_ids, token_type_ids, pad_token_id) ==
    LET copied == input_ids
        no_pad == masked_fill(copied, eq_mask(copied, pad_token_id), IgnoreIndex)
    IN  masked_fill(no_pad, eq_mask(token_type_ids, 0), IgnoreIndex)

\* a check that looks for NaN only
has_nan_only(loss) == loss.kind = "nan"

\* (has_nan | has_inf).any().item()
has_nan_or_inf(loss) == loss.kind = "nan" \/ loss.kind = "inf"

\* the calls forward makes, ending in its return or in sys.exit; `enc` is what
\* the tokenizer returns for the pairs, `loss` what the LM returns as outputs.loss
forward_calls(enc, loss) ==
    LET input_ids == enc.input_ids
        target_ids == target_ids_of(input_ids, enc.token_type_ids, tokenizer.pad_token_id)
        model_call == Event("model", [input_ids |-> input_ids, labels |-> target_ids,
                                      loss |-> loss])
    IN  <<Event("tokenizer", enc), model_call>> \o
        ( IF has_nan_or_inf(loss)
          THEN <<Event("print", "!!!!"), Event("sys.exit", loss)>>
          ELSE <<Event("forward.return", loss)>> )

forward(enc, loss) ==
    /\ status = "running"
    /\ trace' = <<Event("forward", << >>)>> \o forward_calls(enc, loss)
    /\ status' = IF has_nan_or_inf(loss) THEN "exited" ELSE "running"
    /\ UNCHANGED <<hparams, tokenizer, scheduler, optimizer, trainer,
                   val_content, test_content, epoch_log, fed>>

-----------------------------------------------------------------------------
(* training_step                                                           *)

\* the learning rate LinearWarmupCosineLRScheduler.step writes to the optimizer
scheduled_lr(sched, cur_step, cur_epoch, max_step) ==
    [kind |-> "scheduled", cur_step |-> cur_step, cur_epoch |-> cur_epoch,
     max_step |-> max_step]

\* the optimizer after line 83-84
stepped_optimizer(sched, opt, tr, epoch) ==
    IF sched.kind = "LinearWarmupCosineLRScheduler"
    THEN [opt EXCEPT !.lr = scheduled_lr(sched, tr.global_step, epoch, tr.max_steps)]
    ELSE opt

\* the calls of line 83-84
step_calls(sched, tr, epoch) ==
    IF sched.kind = "LinearWarmupCosineLRScheduler"
    THEN <<Event("scheduler.step", <<tr.global_step, epoch, tr.max_steps>>)>>
    ELSE << >>

\* the calls of lines 87-91, after forward has returned `loss`
log_calls(sched, opt, tr, loss) ==
    <<Event("log", [name |-> "loss", value |-> loss])>> \o
    ( IF sched.kind = "LinearWarmupCosineLRScheduler"
      THEN <<Event("log", [name |-> "lr", value |-> opt.lr]),
             Event("log", [name |-> "global_step_num", value |-> tr.global_step]),
             Event("return", loss)>>
      ELSE <<Event("raise", "AttributeError")>> )

\* a training_step that logs the learning rate read before the scheduler stepped
training_calls_stale_lr(sched, opt, tr, epoch, enc, loss) ==
    IF sched.kind = "unset"
    THEN <<Event("raise", "AttributeError")>>
    ELSE step_calls(sched, tr, epoch) \o
         LET fwd == forward_calls(enc, loss)
         IN  IF Last(fwd).op = "sys.exit"
             THEN fwd
             ELSE fwd \o log_calls(sched, opt, tr, loss)

\* the calls of a whole training_step
training_calls(sched, opt, tr, epoch, enc, loss) ==
    IF sched.kind = "unset"
    THEN <<Event("raise", "AttributeError")>>
    ELSE step_calls(sched, tr, epoch) \o
         LET fwd == forward_calls(enc, loss)
         IN  IF Last(fwd).op = "sys.exit"
             THEN fwd
             ELSE fwd \o log_calls(sched, stepped_optimizer(sched, opt, tr, epoch), tr, loss)

status_after(calls) ==
    IF Last(calls).op = "sys.exit" THEN "exited"
    ELSE IF Last(calls).op = "raise" THEN "raised"
    ELSE "running"

training_step(enc, loss) ==
    /\ status = "running"
    /\ trainer.configured
    /\ trainer.stage = "idle"
    /\ trainer.global_step < MaxGlobalStep
    /\ trainer.max_steps = -1 \/ trainer.global_step < trainer.max_steps
    /\ LET calls == training_calls(scheduler, optimizer, trainer, current_epoch, enc, loss)
       IN  /\ trace' = <<Event("training_step", << >>)>> \o calls
           /\ status' = status_after(calls)
           /\ optimizer' = IF scheduler.kind = "unset" THEN optimizer
                           ELSE stepped_optimizer(scheduler, optimizer, trainer, current_epoch)
           \* the trainer's loop: backward, optimizer.step, global_step += 1
           /\ trainer' = IF status_after(calls) = "running"
                         THEN [trainer EXCEPT !.global_step = @ + 1]
                         ELSE trainer
    /\ UNCHANGED <<hparams, tokenizer, scheduler, val_content, test_content, epoch_log, fed>>

-----------------------------------------------------------------------------
(* Texts of the evaluation data: strings as sequences of characters.       *)

Pieces == {<<"<", "1", ">">>, <<"<", "2", ">">>, <<"<">>, <<">">>, <<"\n">>}

RECURSIVE TextsOf(_)
\* the concatenations of exactly n pieces
TextsOf(n) ==
    IF n = 0 THEN {<< >>}
    ELSE {t \o q : t \in TextsOf(n - 1), q \in Pieces}

\* the concatenations of 1..n pieces
TextsUpTo(n) == UNION {TextsOf(k) : k \in 1..n}

\* an evaluation batch as the DataLoader collates it
Batch(input, answer) == [input |-> input, answer |-> answer]

Min(a, b) == IF a <= b THEN a ELSE b

\* zip(batch['input'], batch['answer']): the number of pairs
zip_len(batch) == Min(Len(batch.input), Len(batch.answer))

-----------------------------------------------------------------------------
(* generate                                                                *)

\* the keyword defaults of generate (line 95)
generate_defaults ==
    [temperature |-> 0, do_sample |-> FALSE, num_beams |-> 1, min_gen_length |-> 1,
     repetition_penalty |-> 1, length_penalty |-> 1, num_return_sequences |-> 1]

\* prompts paired with their reference answers, as forward builds them
generate_pairs(batch) == [b \in 1..zip_len(batch) |-> <<batch.input[b], batch.answer[b]>>]

\* input_pairs of line 97
generate_prompts(batch) == [b \in 1..zip_len(batch) |-> batch.input[b]]

\* the calls generate makes; `outs` is what the LM's decoding returns, decoded
generate_calls(batch, kw, outs) ==
    LET input_pairs == generate_prompts(batch)
    IN  <<Event("tokenizer", input_pairs),
          Event("model.generate",
                [input |-> input_pairs, temperature |-> kw.temperature,
                 do_sample |-> kw.do_sample, num_beams |-> kw.num_beams,
                 min_new_tokens |-> kw.min_gen_length,
                 pad_token_id |-> tokenizer.pad_token_id,
                 repetition_penalty |-> kw.repetition_penalty,
                 length_penalty |-> kw.length_penalty,
                 num_return_sequences |-> kw.num_return_sequences]),
          Event("batch_decode", outs),
          Event("generate.return", outs)>>

\* how many sequences the LM's generate returns for a batch
num_sequences(batch, kw) == zip_len(batch) * kw.num_return_sequences

-----------------------------------------------------------------------------
(* validation_step / test_step                                             *)

empty_content == [input |-> << >>, generated_text |-> << >>, label |-> << >>]

\* a loop that never advances b
accumulate_first_text(content, batch, texts) ==
    [input |-> content.input \o [b \in 1..zip_len(batch) |-> batch.input[b]],
     label |-> content.label \o [b \in 1..zip_len(batch) |-> batch.answer[b]],
     generated_text |-> content.generated_text \o [b \in 1..zip_len(batch) |-> texts[1]]]

\* the loop of lines 136-141 (177-181): one entry per zipped pair
accumulate(content, batch, texts) ==
    [input |-> content.input \o [b \in 1..zip_len(batch) |-> batch.input[b]],
     label |-> content.label \o [b \in 1..zip_len(batch) |-> batch.answer[b]],
     generated_text |-> content.generated_text \o [b \in 1..zip_len(batch) |-> texts[b]]]

on_validation_epoch_start ==
    /\ status = "running"
    /\ trainer.stage = "idle"
    /\ val_content' = empty_content
    /\ trainer' = [trainer EXCEPT !.stage = "validating"]
    /\ trace' = <<Event("on_validation_epoch_start", << >>)>>
    /\ fed' = [fed EXCEPT !.val = << >>]
    /\ epoch_log' = [epoch_log EXCEPT !.val = None]
    /\ UNCHANGED <<hparams, tokenizer, scheduler, optimizer, status, test_content>>

validation_step(batch, outs) ==
    /\ status = "running"
    /\ trainer.stage = "validating"
    /\ Len(val_content.input) + zip_len(batch) <= MaxSamples
    /\ Len(outs) = num_sequences(batch, generate_defaults)
    /\ val_content' = accumulate(val_content, batch, outs)
    /\ trace' = <<Event("validation_step", batch)>> \o
                generate_calls(batch, generate_defaults, outs)
    /\ fed' = [fed EXCEPT !.val = Append(@, [batch |-> batch, texts |-> outs])]
    /\ UNCHANGED <<hparams, tokenizer, scheduler, optimizer, trainer, status,
                   test_content, epoch_log>>

on_test_epoch_start ==
    /\ status = "running"
    /\ trainer.stage = "idle"
    /\ test_content' = empty_content
    /\ trainer' = [trainer EXCEPT !.stage = "testing"]
    /\ trace' = <<Event("on_test_epoch_start", << >>)>>
    /\ fed' = [fed EXCEPT !.test = << >>]
    /\ epoch_log' = [epoch_log EXCEPT !.test = None]
    /\ UNCHANGED <<hparams, tokenizer, scheduler, optimizer, status, val_content>>

test_step(batch, outs) ==
    /\ status = "running"
    /\ trainer.stage = "testing"
    /\ Len(test_content.input) + zip_len(batch) <= MaxSamples
    /\ Len(outs) = num_sequences(batch, generate_defaults)
    /\ test_content' = accumulate(test_content, batch, outs)
    /\ trace' = <<Event("test_step", batch)>> \o
                generate_calls(batch, generate_defaults, outs)
    /\ fed' = [fed EXCEPT !.test = Append(@, [batch |-> batch, texts |-> outs])]
    /\ UNCHANGED <<hparams, tokenizer, scheduler, optimizer, trainer, status,
                   val_content, epoch_log>>

-----------------------------------------------------------------------------
(* re.findall(r'<(.*?)>', s) and float(s)                                  *)

RECURSIVE lazy_end(_, _)
\* '.*?>' tried from position j: the position of the closing '>', 0 if none
\* ('.' does not match a newline)
lazy_end(s, j) ==
    IF j > Len(s) THEN 0
    ELSE IF s[j] = ">" THEN j
    ELSE IF s[j] = "\n" THEN 0
    ELSE lazy_end(s, j + 1)

RECURSIVE findall_from(_, _)
\* the non-overlapping matches scanning from position pos, leftmost first
findall_from(s, pos) ==
    IF pos > Len(s) THEN << >>
    ELSE IF s[pos] = "<" /\ lazy_end(s, pos + 1) # 0
         THEN <<SubSeq(s, pos + 1, lazy_end(s, pos + 1) - 1)>> \o
              findall_from(s, lazy_end(s, pos + 1) + 1)
         ELSE findall_from(s, pos + 1)

findall(s) == findall_from(s, 1)

Digits == {"0", "1", "2", "3", "4", "5", "6", "7", "8", "9"}

DigitValue(c) ==
    CASE c = "0" -> 0 [] c = "1" -> 1 [] c = "2" -> 2 [] c = "3" -> 3 [] c = "4" -> 4
      [] c = "5" -> 5 [] c = "6" -> 6 [] c = "7" -> 7 [] c = "8" -> 8 [] c = "9" -> 9

RECURSIVE decimal(_, _)
decimal(s, n) == IF n = 0 THEN 0 ELSE 10 * decimal(s, n - 1) + DigitValue(s[n])

\* float(s) for a string of the modelled alphabet: a number, or ValueError
to_float(s) ==
    IF Len(s) > 0 /\ \A i \in 1..Len(s) : s[i] \in Digits
    THEN [ok |-> TRUE, v |-> decimal(s, Len(s))]
    ELSE [ok |-> FALSE, v |-> 0]

-----------------------------------------------------------------------------
(* on_validation_epoch_end / on_test_epoch_end                             *)

Abs(x) == IF x < 0 THEN -x ELSE x

RECURSIVE SumAbsDiff(_, _, _)
SumAbsDiff(y_true, y_pre, n) ==
    IF n = 0 THEN 0 ELSE SumAbsDiff(y_true, y_pre, n - 1) + Abs(y_true[n] - y_pre[n])

Raise(error) == [kind |-> "raise", error |-> error, num |-> 0, den |-> 0]

\* sklearn.metrics.mean_absolute_error, as the fraction num/den; it rejects
\* empty input
mean_absolute_error(y_true, y_pre) ==
    IF Len(y_true) = 0 THEN Raise("ValueError")
    ELSE [kind |-> "metric", error |-> "", num |-> SumAbsDiff(y_true, y_pre, Len(y_true)),
          den |-> Len(y_true)]

\* a prediction read from the first match
predict_of_first(found) ==
    IF to_float(found[1]).ok THEN to_float(found[1]).v ELSE 0

\* predict of lines 150, 152-155, given a non-empty findall
predict_of(found) ==
    IF to_float(Last(found)).ok THEN to_float(Last(found)).v ELSE 0

\* a pair whose generated text without a match is scored as 0
pair_result_lenient(predict, label) ==
    LET found_p == findall(predict)
        found_l == findall(label)
    IN  IF Len(found_l) = 0 THEN Raise("IndexError")
        ELSE IF ~to_float(found_l[1]).ok THEN Raise("ValueError")
        ELSE [kind |-> "pair", y_true |-> to_float(found_l[1]).v,
              y_pre |-> IF Len(found_p) = 0 THEN 0
                        ELSE IF to_float(Last(found_p)).ok THEN to_float(Last(found_p)).v
                        ELSE 0]

\* lines 150-155 for one (generated text, label) pair
pair_result(predict, label) ==
    LET found_p == findall(predict)
        found_l == findall(label)
    IN  IF Len(found_p) = 0 THEN Raise("IndexError")
        ELSE IF Len(found_l) = 0 THEN Raise("IndexError")
        ELSE IF ~to_float(found_l[1]).ok THEN Raise("ValueError")
        ELSE [kind |-> "pair", y_true |-> to_float(found_l[1]).v,
              y_pre |-> predict_of(found_p)]

RECURSIVE epoch_end_loop(_, _, _, _, _)
\* the loop of lines 149-157 from pair k on, then line 158
epoch_end_loop(generated_text, label, k, y_true, y_pre) ==
    IF k > Min(Len(generated_text), Len(label))
    THEN mean_absolute_error(y_true, y_pre)
    ELSE LET r == pair_result(generated_text[k], label[k])
         IN  IF r.kind = "raise" THEN r
             ELSE epoch_end_loop(generated_text, label, k + 1,
                                 Append(y_true, r.y_true), Append(y_pre, r.y_pre))

\* lines 146-158 on the validation accumulator
validation_metric(content) ==
    epoch_end_loop(content.generated_text, content.label, 1, << >>, << >>)

\* a test metric that sums the absolute errors without dividing
test_metric_sum(content) ==
    LET r == epoch_end_loop(content.generated_text, content.label, 1, << >>, << >>)
    IN  IF r.kind = "metric" THEN [r EXCEPT !.den = 1] ELSE r

\* lines 186-198 on the test accumulator
test_metric(content) ==
    epoch_end_loop(content.generated_text, content.label, 1, << >>, << >>)

\* the calls of an epoch-end hook: self.log('metric', mae) unless it raised
epoch_end_calls(result) ==
    IF result.kind = "metric"
    THEN <<Event("log", [name |-> "metric", value |-> result])>>
    ELSE <<Event("raise", result.error)>>

on_validation_epoch_end ==
    /\ status = "running"
    /\ trainer.stage = "validating"
    /\ LET result == validation_metric(val_content)
       IN  /\ trace' = <<Event("on_validation_epoch_end", << >>)>> \o epoch_end_calls(result)
           /\ epoch_log' = [epoch_log EXCEPT !.val = result]
           /\ status' = IF result.kind = "metric" THEN "running" ELSE "raised"
    /\ trainer' = [trainer EXCEPT !.stage = "idle"]
    /\ UNCHANGED <<hparams, tokenizer, scheduler, optimizer, val_content, test_content, fed>>

on_test_epoch_end ==
    /\ status = "running"
    /\ trainer.stage = "testing"
    /\ LET result == test_metric(test_content)
       IN  /\ trace' = <<Event("on_test_epoch_end", << >>)>> \o epoch_end_calls(result)
           /\ epoch_log' = [epoch_log EXCEPT !.test = result]
           /\ status' = IF result.kind = "metric" THEN "running" ELSE "raised"
    /\ trainer' = [trainer EXCEPT !.stage = "idle"]
    /\ UNCHANGED <<hparams, tokenizer, scheduler, optimizer, val_content, test_content, fed>>

-----------------------------------------------------------------------------
(* Specifications.                                                         *)

\* the evaluation data of the lifecycle specifications: each prompt with its
\* reference answer, and what the LM may generate
DataPairs == {<<<<"p">>, <<"<", "1", ">">>>>, <<<<"q">>, <<"<", "2", ">">>>>}
Generations == {<<"<", "1", ">">>, <<"<">>}

SeqsOf(S, lo, hi) == UNION {[1..n -> S] : n \in lo..hi}

BatchOfPairs(pairs) ==
    Batch([b \in 1..Len(pairs) |-> pairs[b][1]], [b \in 1..Len(pairs) |-> pairs[b][2]])

EvalBatches == {BatchOfPairs(pairs) : pairs \in SeqsOf(DataPairs, 1, MaxBatch)}

EvalSteps ==
    \/ on_validation_epoch_start
    \/ \E batch \in EvalBatches : \E outs \in [1..Len(batch.input) -> Generations] :
           validation_step(batch, outs)
    \/ on_validation_epoch_end
    \/ on_test_epoch_start
    \/ \E batch \in EvalBatches : \E outs \in [1..Len(batch.input) -> Generations] :
           test_step(batch, outs)
    \/ on_test_epoch_end

\* one configuration of the module, for the specifications that never train
InitEval ==
    \E h \in HParams :
        /\ h.lr_scheduler = "cosine" /\ h.weight_decay = "absent"
        /\ InitModule(h, -1, -1)

content_of(samples) ==
    [input |-> [i \in 1..Len(samples) |-> samples[i].prompt],
     label |-> [i \in 1..Len(samples) |-> samples[i].label],
     generated_text |-> [i \in 1..Len(samples) |-> samples[i].text]]

fed_of(samples) ==
    [i \in 1..Len(samples) |->
        [batch |-> Batch(<<samples[i].prompt>>, <<samples[i].label>>),
         texts |-> <<samples[i].text>>]]

\* an evaluation epoch of `stage` that has accumulated `samples`, each fed as
\* a batch of one, and is about to run its end hook
MetricState(samples, stage) ==
    /\ hparams \in {h \in HParams : h.lr_scheduler = "cosine" /\ h.weight_decay = "absent"}
    /\ tokenizer = [pad_token_id |-> load_llm_pad_token_id(-1, MaxTokenId),
                    eos_token_id |-> MaxTokenId]
    /\ scheduler = Unset
    /\ optimizer = Unset
    /\ trainer = [global_step |-> 0, max_steps |-> -1, configured |-> FALSE,
                  stage |-> stage]
    /\ status = "running"
    /\ trace = << >>
    /\ val_content = IF stage = "validating" THEN content_of(samples) ELSE Unset
    /\ test_content = IF stage = "testing" THEN content_of(samples) ELSE Unset
    /\ epoch_log = [val |-> None, test |-> None]
    /\ fed = [val |-> IF stage = "validating" THEN fed_of(samples) ELSE << >>,
              test |-> IF stage = "testing" THEN fed_of(samples) ELSE << >>]

RECURSIVE Concat(_, _, _)
\* the text pieces lo..hi of `pieces` concatenate to
Concat(pieces, lo, hi) ==
    IF lo > hi THEN << >> ELSE pieces[lo] \o Concat(pieces, lo + 1, hi)

\* the end of segment j of 1..k cut after the positions `cuts`
Boundary(cuts, k, j) ==
    IF j = 0 THEN 0
    ELSE IF j = Cardinality(cuts) + 1 THEN k
    ELSE CHOOSE c \in cuts : Cardinality({d \in cuts : d <= c}) = j

Segment(pieces, cuts, j) ==
    Concat(pieces, Boundary(cuts, Len(pieces), j - 1) + 1, Boundary(cuts, Len(pieces), j))

\* the samples whose labels and generated texts are, in turn, the segments of
\* `pieces` cut after the positions `cuts`
SamplesFrom(pieces, cuts) ==
    [i \in 1..((Cardinality(cuts) + 1) \div 2) |->
        [prompt |-> <<"p">>, label |-> Segment(pieces, cuts, 2 * i - 1),
         text |-> Segment(pieces, cuts, 2 * i)]]

\* the accumulators an evaluation epoch may hold before its end hook: up to
\* MaxSamples samples whose labels and generated texts are concatenated from up
\* to MaxPieces pieces in all
InitMetric ==
    \E k \in 0..MaxPieces :
        \E pieces \in [1..k -> Pieces], cuts \in SUBSET (1..(k - 1)),
           stage \in {"validating", "testing"} :
            /\ k > 0 => /\ Cardinality(cuts) % 2 = 1
                        /\ (Cardinality(cuts) + 1) \div 2 <= MaxSamples
            /\ MetricState(IF k = 0 THEN << >> ELSE SamplesFrom(pieces, cuts), stage)

NextMetric ==
    \/ on_validation_epoch_end
    \/ on_test_epoch_end

\* forward applied once to what the tokenizer and the LM may return
NextForward ==
    /\ trace = << >>
    /\ \E rows \in 1..MaxRows : \E enc \in Encodings(rows, MaxLength), loss \in Losses :
           forward(enc, loss)

\* the configurations forward depends on: the tokenizer's pad token
InitForward ==
    \E h \in HParams, pad \in {-1, 0} :
        /\ h.lr_scheduler = "cosine" /\ h.weight_decay = "absent"
        /\ InitModule(h, pad, -1)

NextTrain ==
    \/ configure_optimizers
    \/ \E enc \in Encodings(1, 1), loss \in Losses : training_step(enc, loss)

\* the evaluation data of the training lifecycle: one sample, one generation
OneBatch == Batch(<<<<"p">>>>, <<<<"<", "1", ">">>>>)
OneText == <<<<"<", "2", ">">>>>

NextOneEval ==
    \/ on_validation_epoch_start
    \/ validation_step(OneBatch, OneText)
    \/ on_validation_epoch_end
    \/ on_test_epoch_start
    \/ test_step(OneBatch, OneText)
    \/ on_test_epoch_end

Next == NextTrain \/ NextOneEval

\* trainer.fit, trainer.validate and trainer.test on one module
Spec == Init /\ [][Next]_vars

\* forward called on tokenized batches
SpecForward == InitForward /\ [][NextForward]_vars

\* the evaluation hooks as trainer.validate / trainer.test drive them
SpecEval == InitEval /\ [][EvalSteps]_vars

\* the epoch-end hooks on the accumulators of an epoch
SpecMetric == InitMetric /\ [][NextMetric]_vars

-----------------------------------------------------------------------------
(* Properties.                                                             *)

Handler == IF trace = << >> THEN "" ELSE trace[1].op

EventsOf(op) == {i \in DOMAIN trace : trace[i].op = op}

LogsOf(name) == {i \in EventsOf("log") : trace[i].args.name = name}

NonFinite(loss) == loss.kind \in {"nan", "inf"}

\* C1: whenever forward calls the LM, the input_ids it passes are the
\* tokenizer's, and the label at every position is -100 where the input id is
\* the pad token or the token type is 0, and the input id everywhere else.
C1_LabelsMaskPromptAndPadding ==
    \A i \in EventsOf("model") :
        LET enc == trace[i - 1].args
            call == trace[i].args
        IN  /\ trace[i - 1].op = "tokenizer"
            /\ call.input_ids = enc.input_ids
            /\ DOMAIN call.labels = DOMAIN enc.input_ids
            /\ \A r \in DOMAIN enc.input_ids :
                  /\ DOMAIN call.labels[r] = DOMAIN enc.input_ids[r]
                  /\ \A p \in DOMAIN enc.input_ids[r] :
                        call.labels[r][p] =
                            IF \/ enc.input_ids[r][p] = tokenizer.pad_token_id
                               \/ enc.token_type_ids[r][p] = 0
                            THEN -100
                            ELSE enc.input_ids[r][p]

\* forward has run on a row whose answer segment holds a pad token (masked)
\* and a non-pad token (kept as its own label)
C1_Witness ==
    /\ Handler = "forward"
    /\ \E i \in EventsOf("model") :
          \E r \in DOMAIN trace[i].args.labels :
              \E p, q \in DOMAIN trace[i].args.labels[r] :
                  /\ trace[i - 1].args.token_type_ids[r][p] = 1
                  /\ trace[i].args.input_ids[r][p] = tokenizer.pad_token_id
                  /\ trace[i].args.labels[r][p] = -100
                  /\ trace[i - 1].args.token_type_ids[r][q] = 1
                  /\ trace[i].args.input_ids[r][q] # tokenizer.pad_token_id
                  /\ trace[i].args.labels[r][q] = trace[i].args.input_ids[r][q]

\* C2: a NaN or infinite loss ends the process inside forward: nothing is
\* returned or logged and no handler runs afterwards; a finite loss is returned
\* by forward unchanged, and only such a loss is logged or returned by
\* training_step.
C2_NonFiniteLossAborts ==
    /\ \A i \in EventsOf("model") :
          IF NonFinite(trace[i].args.loss)
          THEN /\ status = "exited"
               /\ Last(trace).op = "sys.exit"
               /\ EventsOf("forward.return") = {}
               /\ EventsOf("log") = {}
               /\ EventsOf("return") = {}
          ELSE /\ status # "exited"
               /\ trace[i + 1] = Event("forward.return", trace[i].args.loss)
               /\ \A j \in LogsOf("loss") : trace[j].args.value = trace[i].args.loss
               /\ \A j \in EventsOf("return") : trace[j].args = trace[i].args.loss
    /\ \A j \in LogsOf("loss") : ~NonFinite(trace[j].args.value)
    /\ status = "exited" => ~ENABLED Next

\* a training_step whose loss was infinite has ended the process
C2_Witness ==
    /\ Handler = "training_step"
    /\ status = "exited"
    /\ \E i \in EventsOf("model") : trace[i].args.loss = PosInf

\* C4: right after configure_optimizers the optimizer is AdamW over the model
\* parameters with lr = hparams.lr and weight_decay = hparams.weight_decay (0
\* when absent); 'cosine' creates the scheduler with max_step =
\* trainer.max_steps and warmup_steps = floor(max_step / 20) and returns the
\* optimizer; None creates no scheduler and returns the optimizer; any other
\* value sets the scheduler to None and raises ValueError.
C4_ConfigureOptimizers ==
    Handler = "configure_optimizers" =>
        /\ optimizer.kind = "AdamW"
        /\ optimizer.params = "model.parameters"
        /\ optimizer.lr = hparams.lr
        /\ optimizer.weight_decay =
              IF hparams.weight_decay = "absent" THEN 0 ELSE hparams.weight_decay
        /\ hparams.lr_scheduler = "cosine" =>
              /\ scheduler.kind = "LinearWarmupCosineLRScheduler"
              /\ scheduler.max_step = trainer.max_steps
              /\ 20 * scheduler.warmup_steps <= trainer.max_steps
              /\ trainer.max_steps < 20 * (scheduler.warmup_steps + 1)
              /\ Last(trace) = Event("return", "optimizer")
              /\ status = "running"
        /\ hparams.lr_scheduler = "None" =>
              /\ scheduler = Unset
              /\ Last(trace) = Event("return", "optimizer")
              /\ status = "running"
        /\ hparams.lr_scheduler \notin {"cosine", "None"} =>
              /\ scheduler = None
              /\ Last(trace) = Event("raise", "ValueError")
              /\ status = "raised"

\* configure_optimizers has built the cosine scheduler for a trainer without a
\* step limit (max_steps = -1)
C4_Witness ==
    /\ Handler = "configure_optimizers"
    /\ hparams.lr_scheduler = "cosine"
    /\ hparams.weight_decay = "absent"
    /\ trainer.max_steps = -1
    /\ scheduler.warmup_steps = -1

\* C5: under a configuration configure_optimizers accepts, a training_step
\* whose loss is finite logs 'loss', 'lr' and 'global_step_num' and returns.
C5_TrainingStepCompletes ==
    ( /\ Handler = "training_step"
      /\ hparams.lr_scheduler \in {"None", "cosine"}
      /\ EventsOf("sys.exit") = {} ) =>
        /\ Last(trace).op = "return"
        /\ LogsOf("loss") # {}
        /\ LogsOf("lr") # {}
        /\ LogsOf("global_step_num") # {}
        /\ status = "running"

\* C6: with a scheduler configured, a training_step calls scheduler.step once,
\* first of all its calls, with the global step, epoch and max_steps of that
\* step; the 'lr' it logs is the rate that call set; the evaluation hooks never
\* call scheduler.step.
C6_SchedulerSteppedOncePerTrainingStep ==
    /\ ( Handler = "training_step" /\ scheduler.kind = "LinearWarmupCosineLRScheduler" ) =>
          LET step == trainer.global_step - (IF status = "running" THEN 1 ELSE 0)
              epoch == step \div StepsPerEpoch
          IN  /\ EventsOf("scheduler.step") = {2}
              /\ trace[2].args = <<step, epoch, trainer.max_steps>>
              /\ \A i \in EventsOf("tokenizer") \cup EventsOf("model") : i > 2
              /\ EventsOf("model") # {}
              /\ \A j \in LogsOf("lr") :
                    /\ trace[j].args.value =
                          scheduled_lr(scheduler, step, epoch, trainer.max_steps)
                    /\ trace[j].args.value = optimizer.lr
              /\ \A j \in LogsOf("global_step_num") : trace[j].args.value = step
    /\ Handler \in {"on_validation_epoch_start", "validation_step",
                    "on_validation_epoch_end", "on_test_epoch_start", "test_step",
                    "on_test_epoch_end"} =>
          EventsOf("scheduler.step") = {}

\* the second training_step of a run with a scheduler has logged its rate
C6_Witness ==
    /\ Handler = "training_step"
    /\ scheduler.kind = "LinearWarmupCosineLRScheduler"
    /\ trainer.global_step = 2
    /\ LogsOf("lr") # {}
    /\ fed.val # << >>

-----------------------------------------------------------------------------
(* Bracketed tokens, stated without the scan of the regular expression.    *)

\* s[i..j] is '<', then characters other than '>' and newline, then '>'
IsToken(s, i, j) ==
    /\ i < j
    /\ s[i] = "<"
    /\ s[j] = ">"
    /\ \A k \in (i + 1)..(j - 1) : s[k] \notin {">", "\n"}

TokenStarts(s) == {i \in 1..Len(s) : \E j \in 1..Len(s) : IsToken(s, i, j)}
TokenEnds(s) == {j \in 1..Len(s) : \E i \in 1..Len(s) : IsToken(s, i, j)}
HasToken(s) == TokenStarts(s) # {}

SetMin(S) == CHOOSE x \in S : \A y \in S : x <= y
SetMax(S) == CHOOSE x \in S : \A y \in S : x >= y

\* the content of the first bracketed token of s
FirstTokenContent(s) ==
    LET i == SetMin(TokenStarts(s))
        j == SetMin({e \in 1..Len(s) : IsToken(s, i, e)})
    IN  SubSeq(s, i + 1, j - 1)

\* the content of the last bracketed token of s
LastTokenContent(s) ==
    LET j == SetMax(TokenEnds(s))
        i == SetMin({b \in 1..Len(s) : IsToken(s, b, j)})
    IN  SubSeq(s, i + 1, j - 1)

IsNumber(c) == c # << >> /\ \A i \in 1..Len(c) : c[i] \in Digits

RECURSIVE Pow10(_)
Pow10(n) == IF n = 0 THEN 1 ELSE 10 * Pow10(n - 1)

RECURSIVE NumberOf(_)
NumberOf(c) ==
    IF c = << >> THEN 0 ELSE DigitValue(Head(c)) * Pow10(Len(c) - 1) + NumberOf(Tail(c))

\* the prediction and the reference of pair k of an accumulator
Prediction(content, k) ==
    LET c == LastTokenContent(content.generated_text[k])
    IN  IF IsNumber(c) THEN NumberOf(c) ELSE 0
Reference(content, k) == NumberOf(FirstTokenContent(content.label[k]))

RECURSIVE TotalAbsError(_, _)
TotalAbsError(content, k) ==
    IF k = 0 THEN 0
    ELSE LET d == Reference(content, k) - Prediction(content, k)
         IN  TotalAbsError(content, k - 1) + (IF d < 0 THEN -d ELSE d)

EndedEpoch == Handler \in {"on_validation_epoch_end", "on_test_epoch_end"}
EndedContent == IF Handler = "on_validation_epoch_end" THEN val_content ELSE test_content
EndedLog == IF Handler = "on_validation_epoch_end" THEN epoch_log.val ELSE epoch_log.test

\* some pair of the accumulator the hook cannot score
Unscorable(content) ==
    \E k \in 1..Len(content.label) :
        \/ ~HasToken(content.generated_text[k])
        \/ ~HasToken(content.label[k])
        \/ ~IsNumber(FirstTokenContent(content.label[k]))

\* C3: a 'metric' logged by an epoch-end hook is the mean, over all accumulated
\* pairs, of |reference - prediction|, the reference being the number in the
\* first bracketed token of the label and the prediction the number in the last
\* bracketed token of the generated text, or 0 when that is no number; every
\* label of a logged metric has a numeric first token.
C3_MetricIsMeanAbsoluteError ==
    ( EndedEpoch /\ LogsOf("metric") # {} ) =>
        LET content == EndedContent
            n == Len(content.label)
        IN  /\ n > 0
            /\ Len(content.generated_text) = n
            /\ ~Unscorable(content)
            /\ \A j \in LogsOf("metric") :
                  /\ trace[j].args.value.den > 0
                  /\ trace[j].args.value.num * n =
                        TotalAbsError(content, n) * trace[j].args.value.den

\* a label with the tokens 1 and 2 and a generated text whose first token is 1
\* and whose last token is no number have been scored |1 - 0|
C3_Witness ==
    /\ Handler = "on_validation_epoch_end"
    /\ val_content.label = << <<"<", "1", ">", "<", "2", ">">> >>
    /\ val_content.generated_text = << <<"<", "1", ">", "<", "<", "2", ">">> >>
    /\ \E j \in LogsOf("metric") : trace[j].args.value.num = 1 /\ trace[j].args.value.den = 1

\* C7: an evaluation step gives the tokenizer and the LM's generate the
\* prompts of the batch and the default decoding parameters, whatever the
\* answers of the batch are, and generate returns one text per prompt.
C7_GenerateSeesPromptsOnly ==
    Handler \in {"validation_step", "test_step"} =>
        LET batch == trace[1].args
            texts == Last(trace).args
        IN  /\ trace[2] = Event("tokenizer", batch.input)
            /\ trace[3].op = "model.generate"
            /\ trace[3].args.input = batch.input
            /\ trace[3].args.do_sample = FALSE
            /\ trace[3].args.num_beams = 1
            /\ trace[3].args.num_return_sequences = 1
            /\ \A alt \in [1..Len(batch.answer) -> TextsUpTo(1)] :
                  SubSeq(generate_calls(Batch(batch.input, alt), generate_defaults, texts), 1, 2)
                      = SubSeq(trace, 2, 3)
            /\ Last(trace).op = "generate.return"
            /\ Len(texts) = Len(batch.input)
            /\ \A b \in 1..Len(texts) :
                  LET content == IF Handler = "validation_step" THEN val_content
                                 ELSE test_content
                      at == Len(content.input) - Len(texts) + b
                  IN  content.input[at] = batch.input[b] /\ content.generated_text[at] = texts[b]

\* a validation step on a batch of two different prompts got two different texts
C7_Witness ==
    /\ Handler = "validation_step"
    /\ Len(trace[1].args.input) = 2
    /\ trace[1].args.input[1] # trace[1].args.input[2]
    /\ Len(Last(trace).args) = 2
    /\ Last(trace).args[1] # Last(trace).args[2]

\* C8: an epoch-end hook raises and logs no 'metric' when some generated text
\* has no bracketed token, or some label has none or a non-numeric first one;
\* it logs a metric for every other non-empty accumulator, also when the last
\* token of a generated text is no number.
C8_UnscorablePairRaises ==
    EndedEpoch =>
        IF Unscorable(EndedContent)
        THEN /\ Last(trace).op = "raise"
             /\ LogsOf("metric") = {}
             /\ EndedLog.kind = "raise"
             /\ status = "raised"
        ELSE Len(EndedContent.label) > 0 =>
                /\ Last(trace).op = "log"
                /\ LogsOf("metric") # {}
                /\ status = "running"

\* a test epoch whose second generated text holds no bracketed token has raised
C8_Witness ==
    /\ Handler = "on_test_epoch_end"
    /\ Len(test_content.label) = 2
    /\ \A k \in 1..2 : HasToken(test_content.label[k])
                       /\ IsNumber(FirstTokenContent(test_content.label[k]))
    /\ HasToken(test_content.generated_text[1])
    /\ ~HasToken(test_content.generated_text[2])
    /\ status = "raised"
    /\ Last(trace) = Event("raise", "IndexError")

-----------------------------------------------------------------------------
(* The batches fed to the current epoch, in arrival order.                 *)

RECURSIVE FedInputs(_)
FedInputs(f) == IF f = << >> THEN << >> ELSE f[1].batch.input \o FedInputs(Tail(f))
RECURSIVE FedAnswers(_)
FedAnswers(f) == IF f = << >> THEN << >> ELSE f[1].batch.answer \o FedAnswers(Tail(f))
RECURSIVE FedTexts(_)
FedTexts(f) == IF f = << >> THEN << >> ELSE f[1].texts \o FedTexts(Tail(f))

HoldsExactly(content, f) ==
    /\ Len(content.input) = Len(content.label)
    /\ Len(content.input) = Len(content.generated_text)
    /\ content.input = FedInputs(f)
    /\ content.label = FedAnswers(f)
    /\ content.generated_text = FedTexts(f)

\* C9: val_content holds, in its three lists and at the same index, the
\* prompt, answer and generated text of each sample of the validation steps
\* since the last on_validation_epoch_start, in arrival order and nothing
\* else; test_content likewise for the test hooks.
C9_AccumulatorsHoldTheEpoch ==
    /\ val_content # Unset => HoldsExactly(val_content, fed.val)
    /\ test_content # Unset => HoldsExactly(test_content, fed.test)

\* a validation epoch has taken two batches of one sample with different prompts
\* while test_content holds the sample of an earlier test epoch
C9_Witness ==
    /\ Handler = "validation_step"
    /\ Len(fed.val) = 2
    /\ Len(val_content.input) = 2
    /\ val_content.input[1] # val_content.input[2]
    /\ val_content.generated_text[1] # val_content.generated_text[2]
    /\ test_content # Unset
    /\ Len(test_content.input) = 1
    /\ trainer.stage = "validating"

\* C10: fed the same batches with the same generated texts, the test hooks
\* leave in test_content what the validation hooks leave in val_content, and
\* on_test_epoch_end logs the metric, or raises the error, that
\* on_validation_epoch_end does on the same accumulator.
C10_TestPathEqualsValidationPath ==
    /\ ( val_content # Unset /\ test_content # Unset /\ fed.val = fed.test ) =>
          /\ val_content = test_content
          /\ ( epoch_log.val # None /\ epoch_log.test # None ) =>
                epoch_log.val = epoch_log.test
    /\ Handler = "on_test_epoch_end" =>
          /\ epoch_log.test = validation_metric(test_content)
          /\ SubSeq(trace, 2, Len(trace)) = epoch_end_calls(validation_metric(test_content))
    /\ Handler = "on_validation_epoch_end" =>
          /\ epoch_log.val = test_metric(val_content)
          /\ SubSeq(trace, 2, Len(trace)) = epoch_end_calls(test_metric(val_content))

\* a validation epoch and a test epoch fed the same two batches have both
\* logged the same non-zero metric
C10_Witness ==
    /\ Handler = "on_test_epoch_end"
    /\ Len(fed.test) = 2
    /\ fed.val = fed.test
    /\ epoch_log.val.kind = "metric"
    /\ epoch_log.test.kind = "metric"
    /\ epoch_log.test.num > 0
    /\ epoch_log.val = epoch_log.test
====
